---- MODULE Spec2Model ----
(***************************************************************************)
(* A model of the gnucash-mcp ledger query core: the two-decimal rendering *)
(* of a num/denom amount (models.go), the account resolver and the report  *)
(* operations of Service, and the SQL queries of DB they are built on.     *)
(* SpecFmt, SpecResolve, Spec and SpecReport run one operation as one      *)
(* step; SpecRun runs the six operations query by query, each query        *)
(* succeeding or failing; SpecConc runs several requests at once, their    *)
(* queries interleaved; SpecCancel lets the caller cancel the context of   *)
(* the running request.                                                    *)
(*                                                                         *)
(* Text is modelled as a sequence of one-character strings, so that        *)
(* LOWER, LIKE, ORDER BY and strings.EqualFold are computed character by   *)
(* character.                                                              *)
(***************************************************************************)
EXTENDS Integers, Sequences, FiniteSets, TLC

VARIABLES accounts, transactions, splits, cur, prev

vars == <<accounts, transactions, splits, cur, prev>>

(***************************************************************************)
(* Bounds of the model.                                                    *)
(***************************************************************************)
\* Go's int64 wraps modulo 2^64.  TLC computes with 32-bit integers, so the
\* model keeps the two's-complement wrap-around at a width of IntBits bits.
IntBits == 16
\* The largest limit argument the model passes to an operation.
MaxLimit == 3

(***************************************************************************)
(* Characters and strings.                                                 *)
(***************************************************************************)
\* The characters the model uses, in ascending byte order.
Ascii ==
  << " ", "%", "-", ".", "0", "1", "2", "3", "4", "5", "6", "7", "8", "9", ":",
     "A", "B", "C", "D", "E", "F", "G", "H", "I", "J", "K", "L", "M",
     "N", "O", "P", "Q", "R", "S", "T", "U", "V", "W", "X", "Y", "Z", "_",
     "a", "b", "c", "d", "e", "f", "g", "h", "i", "j", "k", "l", "m",
     "n", "o", "p", "q", "r", "s", "t", "u", "v", "w", "x", "y", "z" >>

Chars == {Ascii[i] : i \in 1..Len(Ascii)}

CodeOf == [c \in Chars |-> CHOOSE i \in 1..Len(Ascii) : Ascii[i] = c]

\* The rank of a character in byte order.
Code(c) == CodeOf[c]

UpperFirst == Code("A")
UpperLast == Code("Z")
LowerFirst == Code("a")

IsUpper(c) == Code(c) >= UpperFirst /\ Code(c) <= UpperLast

LowerOf == [c \in Chars |-> IF IsUpper(c) THEN Ascii[Code(c) - UpperFirst + LowerFirst] ELSE c]

\* strings.ToLower and SQLite's LOWER() on one ASCII character.
LowerChar(c) == LowerOf[c]

ToLower(s) == [i \in 1..Len(s) |-> LowerChar(s[i])]

\* strings.EqualFold on ASCII text.
EqualFold(s, t) == ToLower(s) = ToLower(t)

\* Byte-wise comparison of two texts (SQLite's BINARY collation): s < t.
RECURSIVE StrLess(_, _)
StrLess(s, t) ==
  IF t = << >> THEN FALSE
  ELSE IF s = << >> THEN TRUE
  ELSE IF s[1] # t[1] THEN Code(s[1]) < Code(t[1])
  ELSE StrLess(Tail(s), Tail(t))

StrLeq(s, t) == s = t \/ StrLess(s, t)

\* SQLite's LIKE: % matches any run of characters, _ any one character, any
\* other character matches itself without regard to ASCII case.
RECURSIVE Like(_, _)
Like(s, pat) ==
  IF pat = << >> THEN s = << >>
  ELSE IF pat[1] = "%" THEN
         Like(s, Tail(pat)) \/ (s # << >> /\ Like(Tail(s), pat))
  ELSE IF s = << >> THEN FALSE
  ELSE IF pat[1] = "_" THEN Like(Tail(s), Tail(pat))
  ELSE LowerChar(pat[1]) = LowerChar(s[1]) /\ Like(Tail(s), Tail(pat))

\* pattern := "%" + strings.ToLower(name) + "%"
Pattern(name) == <<"%">> \o ToLower(name) \o <<"%">>

\* s contains t as a contiguous run, without regard to ASCII case.
ContainsFold(s, t) ==
  \E i \in 0..(Len(s) - Len(t)) :
     ToLower(SubSeq(s, i + 1, i + Len(t))) = ToLower(t)

(***************************************************************************)
(* Machine integers.                                                       *)
(***************************************************************************)
IntMod == 2 ^ IntBits
MaxInt == (2 ^ (IntBits - 1)) - 1
MinInt == -(2 ^ (IntBits - 1))

\* The value a machine integer holds after an operation whose exact result
\* is x.
Wrap(x) == ((x - MinInt) % IntMod) + MinInt

Abs(x) == IF x < 0 THEN -x ELSE x

\* Go's / and % truncate toward zero.
GoDiv(a, b) ==
  LET q == Abs(a) \div Abs(b)
  IN  Wrap(IF (a < 0) = (b < 0) THEN q ELSE -q)

GoMod(a, b) ==
  LET r == Abs(a) % Abs(b)
  IN  IF a < 0 THEN -r ELSE r

(***************************************************************************)
(* fmt.Sprintf verbs.                                                      *)
(***************************************************************************)
DigitChar(d) == Ascii[Code("0") + d]

RECURSIVE NatDigits(_)
NatDigits(n) ==
  IF n < 10 THEN <<DigitChar(n)>>
  ELSE NatDigits(n \div 10) \o <<DigitChar(n % 10)>>

\* %d
Itoa(n) == IF n < 0 THEN <<"-">> \o NatDigits(-n) ELSE NatDigits(n)

\* %02d: zero padding to a width of two, the sign counting in the width.
Pad2(n) == IF Len(Itoa(n)) < 2 THEN <<"0">> \o Itoa(n) ELSE Itoa(n)

ZeroAmount == <<"0", ".", "0", "0">>

FormatDecimal(num, denom) ==
  IF denom = 0 THEN ZeroAmount
  ELSE LET negative == num < 0
           n == IF negative THEN Wrap(-num) ELSE num
           whole == GoDiv(n, denom)
           frac == GoDiv(Wrap(GoMod(n, denom) * 100), denom)
           sign == IF negative THEN <<"-">> ELSE << >>
       IN  sign \o Itoa(whole) \o <<".">> \o Pad2(frac)

\* Split.FormatAmount
FormatAmount(sp) == FormatDecimal(sp.value_num, sp.value_denom)

(***************************************************************************)
(* The store: the accounts, transactions and splits tables.                *)
(***************************************************************************)
T_ROOT == <<"R", "O", "O", "T">>
T_ASSET == <<"A", "S", "S", "E", "T">>
T_BANK == <<"B", "A", "N", "K">>
T_EXPENSE == <<"E", "X", "P", "E", "N", "S", "E">>
T_INCOME == <<"I", "N", "C", "O", "M", "E">>

\* The parent_guid of the root account is NULL.
NULL == "NULL"

RootName == <<"R", "o", "o", "t", " ", "A", "c", "c", "o", "u", "n", "t">>

RootAccount ==
  [guid |-> "root", name |-> RootName, account_type |-> T_ROOT, parent_guid |-> NULL]

Account(guid, name, type, parent) ==
  [guid |-> guid, name |-> name, account_type |-> type, parent_guid |-> parent]

NoCall == [op |-> "none"]

(***************************************************************************)
(* DB.FindAccountsByName                                                   *)
(***************************************************************************)
\* Every sequence that lists the accounts of S once each in ascending order
\* of name; ORDER BY name leaves the order of equal names open.
RECURSIVE OrderByName(_)
OrderByName(S) ==
  IF S = {} THEN { << >> }
  ELSE LET first == {a \in S : \A b \in S : StrLeq(a.name, b.name)}
       IN  UNION { { <<a>> \o rest : rest \in OrderByName(S \ {a}) } : a \in first }

\* WHERE LOWER(name) LIKE ?
NameMatches(a, name) == Like(ToLower(a.name), Pattern(name))

\* The row sequences the query can return.
FindAccountsByName(name) ==
  OrderByName({a \in accounts : NameMatches(a, name)})

(***************************************************************************)
(* Service.resolveAccount                                                  *)
(***************************************************************************)
\* "  - %s [%s]"
CandidateLine(a) == <<" ", " ", "-", " ">> \o a.name \o <<" ", "[">> \o a.account_type \o <<"]">>

ExactAt(found, name) == {i \in 1..Len(found) : EqualFold(found[i].name, name)}

Min(S) == CHOOSE x \in S : \A y \in S : x <= y

\* A resolver that looks for the exact match at the head of the candidates
\* only.
resolveMatchFirstOnly(found, name) ==
  IF Len(found) = 0 THEN
    [err |-> "notfound", account |-> NULL, lines |-> << >>, found |-> found]
  ELSE IF EqualFold(found[1].name, name) THEN
    [err |-> "none", account |-> found[1], lines |-> << >>, found |-> found]
  ELSE IF Len(found) > 1 THEN
    [err |-> "ambiguous", account |-> NULL,
     lines |-> [i \in 1..Len(found) |-> CandidateLine(found[i])], found |-> found]
  ELSE
    [err |-> "none", account |-> found[1], lines |-> << >>, found |-> found]

\* A resolver that settles for the first candidate instead of reporting an
\* ambiguity.
resolveMatchNoAmbiguity(found, name) ==
  IF Len(found) = 0 THEN
    [err |-> "notfound", account |-> NULL, lines |-> << >>, found |-> found]
  ELSE IF ExactAt(found, name) # {} THEN
    [err |-> "none", account |-> found[Min(ExactAt(found, name))], lines |-> << >>,
     found |-> found]
  ELSE
    [err |-> "none", account |-> found[1], lines |-> << >>, found |-> found]

\* The resolver once the lookup has returned `found`: its error kind, the
\* account it returns and the candidate lines of its ambiguity message.
resolveMatch(found, name) ==
  IF Len(found) = 0 THEN
    [err |-> "notfound", account |-> NULL, lines |-> << >>, found |-> found]
  ELSE IF ExactAt(found, name) # {} THEN
    [err |-> "none", account |-> found[Min(ExactAt(found, name))], lines |-> << >>,
     found |-> found]
  ELSE IF Len(found) > 1 THEN
    [err |-> "ambiguous", account |-> NULL,
     lines |-> [i \in 1..Len(found) |-> CandidateLine(found[i])], found |-> found]
  ELSE
    [err |-> "none", account |-> found[1], lines |-> << >>, found |-> found]

\* The outcomes of resolveAccount(name) on the current store.
resolveAccount(name) == { resolveMatch(found, name) : found \in FindAccountsByName(name) }

(***************************************************************************)
(* Rendering amounts: the specification SpecFmt calls FormatDecimal on     *)
(* amounts that reach both ends of the integer range.                      *)
(***************************************************************************)
FormatNums == {MinInt, -150, -1, 0, 1, 5, 150, 300, 500, 1000, 12345, 30000, MaxInt}
FormatDenoms == {0, 1, 3, 100, 3000, MaxInt}

EmptyStore ==
  /\ accounts = {RootAccount}
  /\ transactions = {}
  /\ splits = {}

InitFmt ==
  /\ EmptyStore
  /\ cur = NoCall
  /\ prev = NoCall

FormatDecimalStep ==
  /\ \E num \in FormatNums, denom \in FormatDenoms :
        cur' = [op |-> "FormatDecimal", num |-> num, denom |-> denom,
                out |-> FormatDecimal(num, denom)]
  /\ prev' = cur
  /\ UNCHANGED <<accounts, transactions, splits>>

NextFmt == FormatDecimalStep

SpecFmt == InitFmt /\ [][NextFmt]_vars

\* The rendering the contract describes, in unbounded integers.
TwoDigits(f) == <<DigitChar(f \div 10), DigitChar(f % 10)>>

ReferenceRendering(num, denom) ==
  IF denom = 0 THEN <<"0", ".", "0", "0">>
  ELSE (IF num < 0 THEN <<"-">> ELSE << >>)
       \o NatDigits(Abs(num) \div denom) \o <<".">>
       \o TwoDigits(((Abs(num) % denom) * 100) \div denom)

\* C1: for every num and every denom >= 0, FormatDecimal(num, denom) is the
\* reference rendering: "0.00" for denom = 0, otherwise an optional "-"
\* (exactly when num < 0), |num| div denom, a dot and the two digits of
\* ((|num| mod denom) * 100) div denom.
C1_MatchesReference ==
  (cur.op = "FormatDecimal" /\ cur.denom >= 0)
    => cur.out = ReferenceRendering(cur.num, cur.denom)

\* C2: for every num, denom > 0 and k > 0, FormatDecimal(num*k, denom*k)
\* returns the same text as FormatDecimal(num, denom).
C2_ScaleInvariant ==
  (/\ cur.op = "FormatDecimal"
   /\ prev.op = "FormatDecimal"
   /\ prev.denom > 0
   /\ LET k == cur.denom \div prev.denom
      IN  k >= 1 /\ cur.denom = prev.denom * k /\ cur.num = prev.num * k)
    => cur.out = prev.out

(***************************************************************************)
(* Resolving names: the specification SpecResolve runs the resolver on     *)
(* charts of accounts whose names contain, repeat and shadow each other.   *)
(***************************************************************************)
N_Ab == <<"A", "b">>
N_AB == <<"A", "B">>
N_b == <<"b">>
N_Cab == <<"C", "a", "b">>

ResolveNames == {N_Ab, N_AB, N_b, N_Cab}

ParentOf(a) == CHOOSE p \in accounts : p.guid = a.parent_guid

\* The full path of a non-root account: the names from its top-level
\* ancestor down to itself joined by colons, the root left out.
RECURSIVE FullPath(_)
FullPath(a) ==
  IF ParentOf(a).parent_guid = NULL THEN a.name
  ELSE FullPath(ParentOf(a)) \o <<":">> \o a.name

ResolveQueries ==
  { <<"b">>, <<"a", "b">>, <<"a">>, <<"x">>, <<"c", "a">>, <<"_">> }
    \cup { FullPath(a) : a \in {b \in accounts : b.parent_guid # NULL} }

InitResolve ==
  /\ \E n1, n2, n3, n4 \in ResolveNames :
        accounts = { RootAccount,
                     Account("a1", n1, T_ASSET, "root"),
                     Account("a2", n2, T_EXPENSE, "root"),
                     Account("a3", n3, T_BANK, "a1"),
                     Account("a4", n4, T_EXPENSE, "a2") }
  /\ transactions = {}
  /\ splits = {}
  /\ cur = NoCall
  /\ prev = NoCall

ResolveAccountStep ==
  /\ \E name \in ResolveQueries :
       \E r \in resolveAccount(name) :
          cur' = [op |-> "resolveAccount", name |-> name, err |-> r.err,
                  account |-> r.account, lines |-> r.lines, found |-> r.found]
  /\ UNCHANGED <<accounts, transactions, splits, prev>>

NextResolve == ResolveAccountStep

SpecResolve == InitResolve /\ [][NextResolve]_vars

HasExact(found, name) == \E i \in 1..Len(found) : EqualFold(found[i].name, name)

\* C3: whenever a candidate of the lookup has a name case-insensitively equal
\* to the requested name, resolveAccount returns such a candidate and raises
\* no error, however many other candidates there are and wherever the exact
\* match stands among them.
C3_ExactMatchWins ==
  (cur.op = "resolveAccount" /\ HasExact(cur.found, cur.name))
    => /\ cur.err = "none"
       /\ \E i \in 1..Len(cur.found) :
             cur.account = cur.found[i] /\ EqualFold(cur.found[i].name, cur.name)

\* An exact match that is not the first of three or more candidates wins.
C3_Witness ==
  /\ cur.op = "resolveAccount"
  /\ Len(cur.found) >= 3
  /\ HasExact(cur.found, cur.name)
  /\ ~EqualFold(cur.found[1].name, cur.name)
  /\ cur.err = "none"

\* C4: zero candidates give a not-found error; two or more candidates with no
\* exact match give an ambiguity error that lists the name and type of every
\* candidate; exactly one candidate is returned.
C4_NotFoundAmbiguousSingle ==
  cur.op = "resolveAccount" =>
    /\ Len(cur.found) = 0 => cur.err = "notfound"
    /\ (Len(cur.found) >= 2 /\ ~HasExact(cur.found, cur.name))
         => /\ cur.err = "ambiguous"
            /\ Len(cur.lines) = Len(cur.found)
            /\ \A i \in 1..Len(cur.found) :
                  cur.lines[i] = <<" ", " ", "-", " ">> \o cur.found[i].name
                                   \o <<" ", "[">> \o cur.found[i].account_type \o <<"]">>
    /\ Len(cur.found) = 1 => (cur.err = "none" /\ cur.account = cur.found[1])

\* Several candidates, none exact: the ambiguity error.
C4_Witness ==
  /\ cur.op = "resolveAccount"
  /\ Len(cur.found) >= 2
  /\ ~HasExact(cur.found, cur.name)
  /\ cur.err = "ambiguous"

\* C5: for an account below a top-level account, resolveAccount of its full
\* colon-delimited path returns that account.
C5_FullPathResolves ==
  cur.op = "resolveAccount" =>
    \A a \in accounts :
       (/\ a.parent_guid # NULL
        /\ ParentOf(a).parent_guid # NULL
        /\ cur.name = FullPath(a))
         => (cur.err = "none" /\ cur.account = a)

\* C23: when resolveAccount returns an account whose name is
\* case-insensitively equal to the requested name, no other account of the
\* store has a name case-insensitively equal to it.
C23_ExactMatchUnique ==
  (cur.op = "resolveAccount" /\ cur.err = "none" /\ EqualFold(cur.account.name, cur.name))
    => \A a \in accounts : a.guid # cur.account.guid => ~EqualFold(a.name, cur.name)

(***************************************************************************)
(* Dates.  A stored post_date "YYYY-MM-DD HH:MM:SS" is the pair            *)
(* <<day, second of the day>>; a date argument is the empty text << >> or  *)
(* the one-field text <<day>>, and appending " 00:00:00" or " 23:59:59" to *)
(* it appends the field.  The fields have a fixed width, so the byte-wise  *)
(* comparison of two such texts is the comparison of their fields in       *)
(* order.                                                                  *)
(***************************************************************************)
\* The number of days the ledger and the date arguments range over.
MaxDay == 2

\* " 00:00:00"
StartOfDay == 0
\* " 23:59:59"
EndOfDay == 86399

DateLeq(a, b) == a[1] < b[1] \/ (a[1] = b[1] /\ a[2] <= b[2])

NoDate == << >>
DateArgs == {NoDate} \cup {<<d>> : d \in 1..MaxDay}

(***************************************************************************)
(* Sums and orderings over sets of rows.                                   *)
(***************************************************************************)
RECURSIVE SumNum(_)
SumNum(S) ==
  IF S = {} THEN 0
  ELSE LET s == CHOOSE x \in S : TRUE
       IN  s.value_num + SumNum(S \ {s})

MaxDenom(S) == CHOOSE d \in {s.value_denom : s \in S} : \A s \in S : s.value_denom <= d

\* Every sequence that lists the elements of S once each: the orders in
\* which a query without ORDER BY can return its rows.
RECURSIVE AllOrders(_)
AllOrders(S) ==
  IF S = {} THEN { << >> }
  ELSE UNION { { <<x>> \o rest : rest \in AllOrders(S \ {x}) } : x \in S }

\* ORDER BY post_date DESC LIMIT n: every sequence of the first n rows of S
\* in descending order of post_date, rows of equal post_date in any order.
RECURSIVE OrderByDateDescLimit(_, _)
OrderByDateDescLimit(S, n) ==
  IF S = {} \/ n = 0 THEN { << >> }
  ELSE LET first == {r \in S : \A q \in S : DateLeq(q.post_date, r.post_date)}
       IN  UNION { { <<r>> \o rest : rest \in OrderByDateDescLimit(S \ {r}, n - 1) }
                   : r \in first }

TxOf(s) == CHOOSE t \in transactions : t.guid = s.tx_guid
AccountOf(s) == CHOOSE a \in accounts : a.guid = s.account_guid

HasTx(s) == \E t \in transactions : t.guid = s.tx_guid
HasAccount(s) == \E a \in accounts : a.guid = s.account_guid

(***************************************************************************)
(* DB.GetBalanceForAccount                                                 *)
(***************************************************************************)
\* The default denominator of COALESCE(MAX(s.value_denom), 100).
DefaultDenom == 100

\* A balance query that bounds the date by the start of the day.
GetBalanceForAccountStartOfDay(accountGUID, endDate) ==
  LET rows == {s \in splits :
                 /\ HasTx(s)
                 /\ s.account_guid = accountGUID
                 /\ (endDate # NoDate
                       => DateLeq(TxOf(s).post_date, endDate \o <<StartOfDay>>))}
  IN  [num |-> SumNum(rows),
       denom |-> IF rows = {} THEN DefaultDenom ELSE MaxDenom(rows)]

GetBalanceForAccount(accountGUID, endDate) ==
  LET rows == {s \in splits :
                 /\ HasTx(s)
                 /\ s.account_guid = accountGUID
                 /\ (endDate # NoDate
                       => DateLeq(TxOf(s).post_date, endDate \o <<EndOfDay>>))}
  IN  [num |-> SumNum(rows),
       denom |-> IF rows = {} THEN DefaultDenom ELSE MaxDenom(rows)]

(***************************************************************************)
(* Service.GetBalance                                                      *)
(***************************************************************************)
\* The outcomes of GetBalance(accountName, date): the error, the resolved
\* account, the summed amount and its rendering.
GetBalance(accountName, date) ==
  { IF r.err # "none" THEN
      [op |-> "GetBalance", accountName |-> accountName, date |-> date, err |-> r.err]
    ELSE
      LET b == GetBalanceForAccount(r.account.guid, date)
      IN  [op |-> "GetBalance", accountName |-> accountName, date |-> date,
           err |-> "none", account |-> r.account, num |-> b.num, denom |-> b.denom,
           balance |-> FormatDecimal(b.num, b.denom),
           dateLabel |-> IF date # NoDate THEN <<"as of">> \o date ELSE <<"current">>]
    : r \in resolveAccount(accountName) }

(***************************************************************************)
(* parseDate and Time.Format("2006-01-02")                                 *)
(***************************************************************************)
SecondsPerDay == EndOfDay + 1

\* A post_date text whose time of day is past 23:59:59, such as
\* "2025-01-15 24:00:00", has the shape of a date and is in neither layout.
BadSecond == SecondsPerDay

\* The text parses in the layout "2006-01-02 15:04:05".
WellFormed(s) == s[2] >= StartOfDay /\ s[2] <= EndOfDay

\* time.Time{}, which Format("2006-01-02") prints as "0001-01-01".
ZeroTime == 0

\* The instant a post_date text denotes, in seconds, or the zero time and
\* the error of the second time.Parse.
parseDate(s) ==
  IF WellFormed(s) THEN [time |-> s[1] * SecondsPerDay + s[2], err |-> FALSE]
  ELSE [time |-> ZeroTime, err |-> TRUE]

FormatDate(t) == <<t \div SecondsPerDay>>

(***************************************************************************)
(* DB.GetSplitsForAccount                                                  *)
(***************************************************************************)
\* A variant that leaves out the start bound.
InRangeNoStart(postDate, startDate, endDate) ==
  endDate # NoDate => DateLeq(postDate, endDate \o <<EndOfDay>>)

\* The date conditions appended to the WHERE clause.
InRange(postDate, startDate, endDate) ==
  /\ startDate # NoDate => DateLeq(startDate \o <<StartOfDay>>, postDate)
  /\ endDate # NoDate => DateLeq(postDate, endDate \o <<EndOfDay>>)

\* The rows of the join: a split s of the account, its transaction, and one
\* other split s2 of the same transaction with its account.
JoinedRows(accountGUID, startDate, endDate) ==
  { [s |-> p[1], s2 |-> p[2], post_date |-> TxOf(p[1]).post_date] :
      p \in { q \in splits \X splits :
                /\ HasTx(q[1])
                /\ q[2].tx_guid = q[1].tx_guid
                /\ q[2].guid # q[1].guid
                /\ HasAccount(q[2])
                /\ q[1].account_guid = accountGUID
                /\ InRange(TxOf(q[1]).post_date, startDate, endDate) } }

\* Split{GUID, TxGUID, AccountGUID, Memo, ValueNum, ValueDenom} of the row's s.
OwnSplit(row, accountGUID) ==
  [guid |-> row.s.guid, tx_guid |-> row.s.tx_guid, account_guid |-> accountGUID,
   account_name |-> << >>, memo |-> row.s.memo,
   value_num |-> row.s.value_num, value_denom |-> row.s.value_denom]

\* Split{TxGUID, AccountGUID, AccountName, Memo, ValueNum, ValueDenom} of s2.
CounterSplit(row) ==
  [guid |-> "", tx_guid |-> row.s.tx_guid, account_guid |-> row.s2.account_guid,
   account_name |-> AccountOf(row.s2).name, memo |-> row.s2.memo,
   value_num |-> row.s2.value_num, value_denom |-> row.s2.value_denom]

\* The scan loop: txs after the rows from index i on have been read.
RECURSIVE ScanRows(_, _, _, _)
ScanRows(rows, i, txs, accountGUID) ==
  IF i > Len(rows) THEN txs
  ELSE
    LET row == rows[i]
        at == {k \in 1..Len(txs) : txs[k].guid = row.s.tx_guid}
        t == TxOf(row.s)
        next ==
          IF at = {} THEN
            Append(txs, [guid |-> t.guid, post_date |-> parseDate(t.post_date).time,
                         description |-> t.description,
                         splits |-> <<OwnSplit(row, accountGUID), CounterSplit(row)>>])
          ELSE
            [txs EXCEPT ![Min(at)].splits = Append(@, CounterSplit(row))]
    IN  ScanRows(rows, i + 1, next, accountGUID)

\* The results the query and the scan can produce.
GetSplitsForAccount(accountGUID, startDate, endDate, limit) ==
  LET rows == JoinedRows(accountGUID, startDate, endDate)
      n == IF limit > 0 THEN limit ELSE Cardinality(rows)
  IN  { ScanRows(sorted, 1, << >>, accountGUID) : sorted \in OrderByDateDescLimit(rows, n) }

(***************************************************************************)
(* Service.GetTransactions                                                 *)
(***************************************************************************)
\* if limit <= 0 { limit = 50 }
DefaultTxLimit == 50

CounterNames(tx) == [k \in 1..(Len(tx.splits) - 1) |-> tx.splits[k + 1].account_name]

\* One line of the report: the date, the amount of Splits[0], the
\* description and the counterpart account names.
TxLine(tx) ==
  [date |-> FormatDate(tx.post_date), amount |-> FormatAmount(tx.splits[1]),
   description |-> tx.description, counter |-> CounterNames(tx)]

GetTransactions(accountName, startDate, endDate, limit) ==
  UNION {
    IF r.err # "none" THEN
      { [op |-> "GetTransactions", accountName |-> accountName, startDate |-> startDate,
         endDate |-> endDate, limit |-> limit, err |-> r.err] }
    ELSE
      { [op |-> "GetTransactions", accountName |-> accountName, startDate |-> startDate,
         endDate |-> endDate, limit |-> limit, err |-> "none", account |-> r.account,
         txs |-> txs, count |-> Len(txs),
         lines |-> [k \in 1..Len(txs) |-> TxLine(txs[k])]]
        : txs \in GetSplitsForAccount(r.account.guid, startDate, endDate,
                                      IF limit <= 0 THEN DefaultTxLimit ELSE limit) }
    : r \in resolveAccount(accountName) }

(***************************************************************************)
(* DB.SearchTransactions and DB.getSplitsForTransaction                    *)
(***************************************************************************)
\* WHERE LOWER(t.description) LIKE ? OR LOWER(s.memo) LIKE ?, over the left
\* join of the transactions with their splits.
SearchMatches(t, query) ==
  \/ Like(ToLower(t.description), Pattern(query))
  \/ \E s \in splits : s.tx_guid = t.guid /\ Like(ToLower(s.memo), Pattern(query))

\* The splits of one transaction joined with their accounts, in any order.
getSplitsForTransaction(txGUID) ==
  AllOrders({ [guid |-> s.guid, tx_guid |-> s.tx_guid, account_guid |-> s.account_guid,
               account_name |-> AccountOf(s).name, memo |-> s.memo,
               value_num |-> s.value_num, value_denom |-> s.value_denom]
              : s \in {x \in splits : x.tx_guid = txGUID /\ HasAccount(x)} })

\* The second loop: each transaction of the first query with its splits.
RECURSIVE LoadSplits(_)
LoadSplits(rows) ==
  IF rows = << >> THEN { << >> }
  ELSE { << [guid |-> Head(rows).guid, post_date |-> parseDate(Head(rows).post_date).time,
             description |-> Head(rows).description, splits |-> sp] >> \o rest
         : sp \in getSplitsForTransaction(Head(rows).guid), rest \in LoadSplits(Tail(rows)) }

\* The first query: the matching transactions, newest first, LIMIT ?.
SearchRows(query, limit) ==
  LET rows == {t \in transactions : SearchMatches(t, query)}
      n == IF limit < 0 THEN Cardinality(rows) ELSE limit
  IN  OrderByDateDescLimit(rows, n)

DBSearchTransactions(query, limit) ==
  UNION { LoadSplits(sorted) : sorted \in SearchRows(query, limit) }

(***************************************************************************)
(* Service.SearchTransactions                                              *)
(***************************************************************************)
\* if limit <= 0 { limit = 20 }
DefaultSearchLimit == 20

SearchLine(tx) ==
  [date |-> FormatDate(tx.post_date), description |-> tx.description,
   splits |-> [k \in 1..Len(tx.splits) |->
                 [account_name |-> tx.splits[k].account_name,
                  amount |-> FormatAmount(tx.splits[k]),
                  memo |-> tx.splits[k].memo]]]

\* The report of the transactions the store returned.
SearchReport(query, limit, txs) ==
  [op |-> "SearchTransactions", query |-> query, limit |-> limit, err |-> "none",
   txs |-> txs, count |-> Len(txs),
   lines |-> [k \in 1..Len(txs) |-> SearchLine(txs[k])]]

SearchTransactions(query, limit) ==
  { SearchReport(query, limit, txs)
    : txs \in DBSearchTransactions(query, IF limit <= 0 THEN DefaultSearchLimit ELSE limit) }

(***************************************************************************)
(* The ledgers of the specification Spec: the chart of the test fixture    *)
(* and two or three transactions of two legs, of three legs, with two legs *)
(* on the same account, or with a single leg, posted at the first or the   *)
(* last second of a day.                                                   *)
(***************************************************************************)
N_Assets == <<"A", "s", "s", "e", "t", "s">>
N_Expenses == <<"E", "x", "p", "e", "n", "s", "e", "s">>
N_Checking == <<"C", "h", "e", "c", "k", "i", "n", "g">>
N_Groceries == <<"G", "r", "o", "c", "e", "r", "i", "e", "s">>
N_Restaurant == <<"R", "e", "s", "t", "a", "u", "r", "a", "n", "t">>

LedgerAccounts ==
  { RootAccount,
    Account("assets", N_Assets, T_ASSET, "root"),
    Account("expenses", N_Expenses, T_EXPENSE, "root"),
    Account("checking", N_Checking, T_BANK, "assets"),
    Account("groceries", N_Groceries, T_EXPENSE, "expenses"),
    Account("restaurant", N_Restaurant, T_EXPENSE, "expenses") }

SplitRow(guid, tx, account, memo, num) ==
  [guid |-> guid, tx_guid |-> tx, account_guid |-> account, memo |-> memo,
   value_num |-> num, value_denom |-> DefaultDenom]

\* The legs of transaction tx of amount v; every shape sums to zero.
Legs(shape, tx, v, memo) ==
  CASE shape = "two" ->
         { SplitRow(tx \o "a", tx, "checking", << >>, -v),
           SplitRow(tx \o "b", tx, "groceries", memo, v) }
    [] shape = "three" ->
         { SplitRow(tx \o "a", tx, "checking", << >>, -v),
           SplitRow(tx \o "b", tx, "groceries", memo, v - 100),
           SplitRow(tx \o "c", tx, "restaurant", memo, 100) }
    [] shape = "double" ->
         { SplitRow(tx \o "a", tx, "checking", << >>, -(v - 100)),
           SplitRow(tx \o "b", tx, "checking", memo, -100),
           SplitRow(tx \o "c", tx, "groceries", << >>, v) }
    [] shape = "single" ->
         { SplitRow(tx \o "a", tx, "checking", memo, 0) }
    [] shape = "none" -> {}

TxRow(shape, tx, day, time, description) ==
  IF shape = "none" THEN {}
  ELSE { [guid |-> tx, post_date |-> <<day, time>>, description |-> description] }

D_Market == <<"M", "a", "r", "k", "e", "t">>
D_Pay == <<"P", "a", "y">>
D_Mart == <<"M", "a", "r", "t">>
M_Fee == <<"f", "e", "e">>

InitLedger ==
  /\ accounts = LedgerAccounts
  /\ \E s2 \in {"two", "double", "single"}, s3 \in {"none", "three"},
        d2, d3 \in 1..MaxDay, t3 \in {StartOfDay, EndOfDay} :
        /\ s3 = "none" => (d3 = 1 /\ t3 = StartOfDay)
        /\ transactions = TxRow("three", "tx1", 1, StartOfDay, D_Market)
                            \cup TxRow(s2, "tx2", d2, EndOfDay, D_Pay)
                            \cup TxRow(s3, "tx3", d3, t3, D_Mart)
        /\ splits = Legs("three", "tx1", 10000, << >>)
                      \cup Legs(s2, "tx2", 2050, M_Fee)
                      \cup Legs(s3, "tx3", 325, M_Fee)

Init ==
  /\ InitLedger
  /\ cur = NoCall
  /\ prev = NoCall

AccountArgs == { <<"c", "h", "e", "c", "k", "i", "n", "g">>, <<"g", "r", "o", "c">>, <<"e">> }
LimitArgs == 0..MaxLimit
QueryArgs == { <<"m", "a", "r">>, <<"F", "E", "E">>, <<"_">>, <<"z", "z">> }

\* A behaviour is one request, or two successive balance requests for the
\* same name: the operations keep nothing between requests.
Idle == cur = NoCall

GetBalanceStep ==
  /\ \E accountName \in AccountArgs, date \in DateArgs :
       /\ \/ Idle
          \/ (cur.op = "GetBalance" /\ prev = NoCall /\ cur.accountName = accountName)
       /\ \E r \in GetBalance(accountName, date) : cur' = r
  /\ prev' = cur
  /\ UNCHANGED <<accounts, transactions, splits>>

GetTransactionsStep ==
  /\ Idle
  /\ \E accountName \in AccountArgs, startDate \in DateArgs, endDate \in DateArgs,
        limit \in LimitArgs :
       \E r \in GetTransactions(accountName, startDate, endDate, limit) : cur' = r
  /\ UNCHANGED <<accounts, transactions, splits, prev>>

SearchTransactionsStep ==
  /\ Idle
  /\ \E query \in QueryArgs, limit \in LimitArgs :
       \E r \in SearchTransactions(query, limit) : cur' = r
  /\ UNCHANGED <<accounts, transactions, splits, prev>>

Next ==
  \/ GetBalanceStep
  \/ GetTransactionsStep
  \/ SearchTransactionsStep

Spec == Init /\ [][Next]_vars

(***************************************************************************)
(* Properties of the balance, the transaction history and the search.      *)
(***************************************************************************)
SplitsOfAccount(guid) == {s \in splits : s.account_guid = guid}

OnAccount(t, guid) == \E s \in splits : s.tx_guid = t.guid /\ s.account_guid = guid

DayInRange(t, startDate, endDate) ==
  /\ startDate # NoDate => t.post_date[1] >= startDate[1]
  /\ endDate # NoDate => t.post_date[1] <= endDate[1]

\* C7: a transaction history holds only transactions that have a split on
\* the queried account and are posted within [start 00:00:00, end 23:59:59]
\* (an omitted bound is open), in descending order of posting date.
C7_RangeAndOrder ==
  (cur.op = "GetTransactions" /\ cur.err = "none") =>
    /\ \A k \in 1..Len(cur.txs) :
          \E t \in transactions :
             /\ t.guid = cur.txs[k].guid
             /\ cur.txs[k].post_date = t.post_date[1] * (EndOfDay + 1) + t.post_date[2]
             /\ OnAccount(t, cur.account.guid)
             /\ DayInRange(t, cur.startDate, cur.endDate)
    /\ \A k \in 1..(Len(cur.txs) - 1) : cur.txs[k].post_date >= cur.txs[k + 1].post_date

\* A history of two or more transactions within a range that leaves out a
\* transaction of the account.
C7_Witness ==
  /\ cur.op = "GetTransactions" /\ cur.err = "none"
  /\ cur.startDate # NoDate /\ cur.endDate # NoDate
  /\ Len(cur.txs) >= 2
  /\ \E t \in transactions :
        /\ OnAccount(t, cur.account.guid)
        /\ ~DayInRange(t, cur.startDate, cur.endDate)

\* The transactions the history query matches: those posted in the range
\* with a split on the account and at least one other leg.
Matching(guid, startDate, endDate) ==
  {t \in transactions :
     /\ DayInRange(t, startDate, endDate)
     /\ \E s, s2 \in splits :
           /\ s.tx_guid = t.guid /\ s.account_guid = guid
           /\ s2.tx_guid = t.guid /\ s2.guid # s.guid}

\* C8: with a positive limit L and M matching transactions, the history holds
\* min(L, M) transactions, whatever the number of their legs, and the header
\* reports that count.
C8_LimitCountsTransactions ==
  (cur.op = "GetTransactions" /\ cur.err = "none" /\ cur.limit > 0) =>
    /\ Len(cur.txs) =
         Min({cur.limit, Cardinality(Matching(cur.account.guid, cur.startDate, cur.endDate))})
    /\ cur.count = Len(cur.txs)

Leg(s) ==
  [account_guid |-> s.account_guid, account_name |-> AccountOf(s).name,
   memo |-> s.memo, value_num |-> s.value_num, value_denom |-> s.value_denom]

Entry(sp) ==
  [account_guid |-> sp.account_guid, account_name |-> sp.account_name,
   memo |-> sp.memo, value_num |-> sp.value_num, value_denom |-> sp.value_denom]

\* C9: every transaction of a history carries the queried account's split as
\* Splits[0], followed by exactly one entry for each other leg of the
\* transaction, each with the name of its own account.
C9_OneEntryPerOtherLeg ==
  (cur.op = "GetTransactions" /\ cur.err = "none") =>
    \A k \in 1..Len(cur.txs) :
       LET tx == cur.txs[k]
           legs == {s \in splits : s.tx_guid = tx.guid}
       IN  /\ tx.splits[1].account_guid = cur.account.guid
           /\ \E own \in legs :
                 /\ own.guid = tx.splits[1].guid
                 /\ own.account_guid = cur.account.guid
                 /\ Len(tx.splits) - 1 = Cardinality(legs) - 1
                 /\ {Entry(tx.splits[j]) : j \in 2..Len(tx.splits)}
                      = {Leg(s) : s \in legs \ {own}}

TextMatches(t, query) ==
  \/ ContainsFold(t.description, query)
  \/ \E s \in splits : s.tx_guid = t.guid /\ ContainsFold(s.memo, query)

\* C10: a search with a positive limit returns distinct transactions whose
\* description or some split memo contains the query without regard to case,
\* in descending order of posting date, exactly min(limit, number of matching
\* transactions) of them, each with all of its splits, and the header count
\* is the number returned.
C10_SearchResult ==
  (cur.op = "SearchTransactions" /\ cur.err = "none" /\ cur.limit > 0) =>
    /\ \A j, k \in 1..Len(cur.txs) : j # k => cur.txs[j].guid # cur.txs[k].guid
    /\ \A k \in 1..Len(cur.txs) :
          \E t \in transactions :
             /\ t.guid = cur.txs[k].guid
             /\ TextMatches(t, cur.query)
             /\ Len(cur.txs[k].splits) = Cardinality({s \in splits : s.tx_guid = t.guid})
             /\ {sp.guid : sp \in {cur.txs[k].splits[j] : j \in 1..Len(cur.txs[k].splits)}}
                  = {s.guid : s \in {x \in splits : x.tx_guid = t.guid}}
    /\ \A k \in 1..(Len(cur.txs) - 1) : cur.txs[k].post_date >= cur.txs[k + 1].post_date
    /\ Len(cur.txs) =
         Min({cur.limit, Cardinality({t \in transactions : TextMatches(t, cur.query)})})
    /\ cur.count = Len(cur.txs)

\* The splits of the account that GetBalanceForAccount sums with no date.
SplitsOf(accountGUID) == {s \in splits : HasTx(s) /\ s.account_guid = accountGUID}

\* The sum of the amounts the history lists: Splits[0] of each transaction.
RECURSIVE ListedSum(_)
ListedSum(txs) ==
  IF txs = << >> THEN 0
  ELSE Wrap(Head(txs).splits[1].value_num + ListedSum(Tail(txs)))

\* C24: in a history with no date range and the default limit of 50, above
\* the number of rows, every split of the queried account is Splits[0] of
\* exactly one transaction, and the listed amounts add up to the numerator
\* that GetBalance reports for the account.
C24_HistoryMatchesBalance ==
  (/\ cur.op = "GetTransactions" /\ cur.err = "none"
   /\ cur.startDate = NoDate /\ cur.endDate = NoDate /\ cur.limit = 0) =>
    /\ \A s \in SplitsOf(cur.account.guid) :
          Cardinality({k \in 1..Len(cur.txs) : cur.txs[k].splits[1].guid = s.guid}) = 1
    /\ ListedSum(cur.txs) = GetBalanceForAccount(cur.account.guid, NoDate).num

(***************************************************************************)
(* The calendar of the reports.  Days are numbered from 1 and a month is   *)
(* DaysPerMonth consecutive days; the text "YYYY-MM" of a month is its     *)
(* number, so that the byte-wise order of the texts is the order of the    *)
(* numbers.                                                                *)
(***************************************************************************)
\* The number of months the report ledgers range over.
MaxMonth == 2
\* The number of days of a month of the model's calendar.
DaysPerMonth == 2

ReportDays == 1..(MaxMonth * DaysPerMonth)

\* strftime('%Y-%m', post_date) and Time.Format("2006-01")
MonthOf(day) == (day + DaysPerMonth - 1) \div DaysPerMonth

\* The first day of month m; m may lie before the first month of the ledger.
FirstDay(m) == (m - 1) * DaysPerMonth + 1

\* now.Format("2006-01") + "-01"
FirstOfMonth(now) == <<FirstDay(MonthOf(now))>>

\* now.Format("2006-01-02")
Today(now) == <<now>>

(***************************************************************************)
(* DB.GetExpenseSplits                                                     *)
(***************************************************************************)
\* A query that leaves out the start bound.
ExpenseRowsNoStart(startDate, endDate) ==
  {s \in splits :
     /\ HasTx(s)
     /\ HasAccount(s)
     /\ AccountOf(s).account_type = T_EXPENSE
     /\ DateLeq(TxOf(s).post_date, endDate \o <<EndOfDay>>)}

\* The rows of the query: the splits of EXPENSE accounts posted in the range.
ExpenseRows(startDate, endDate) ==
  {s \in splits :
     /\ HasTx(s)
     /\ HasAccount(s)
     /\ AccountOf(s).account_type = T_EXPENSE
     /\ DateLeq(startDate \o <<StartOfDay>>, TxOf(s).post_date)
     /\ DateLeq(TxOf(s).post_date, endDate \o <<EndOfDay>>)}

\* A variant that keeps the accounts anywhere below the parent.
RECURSIVE IsBelow(_, _)
IsBelow(a, parentGUID) ==
  /\ a.parent_guid # NULL
  /\ \/ a.parent_guid = parentGUID
     \/ \E p \in accounts : p.guid = a.parent_guid /\ IsBelow(p, parentGUID)

KeepsAccountBelow(guid, parentAccountGUID) ==
  parentAccountGUID # "" =>
    \E a \in accounts : a.guid = guid /\ IsBelow(a, parentAccountGUID)

\* if parentAccountGUID != "" { keep guid when parents[guid] == parentAccountGUID }
KeepsAccount(guid, parentAccountGUID) ==
  parentAccountGUID # "" =>
    \E a \in accounts : a.guid = guid /\ a.parent_guid = parentAccountGUID

\* byAccount and names: the account ids that have rows, each with its rows
\* and its name.
GetExpenseSplits(startDate, endDate, parentAccountGUID) ==
  LET rows == ExpenseRows(startDate, endDate)
      guids == {g \in {s.account_guid : s \in rows} : KeepsAccount(g, parentAccountGUID)}
  IN  [byAccount |-> [g \in guids |-> {s \in rows : s.account_guid = g}],
       names |-> [g \in {s.account_guid : s \in rows} |->
                    (CHOOSE a \in accounts : a.guid = g).name]]

(***************************************************************************)
(* Service.SpendingByCategory                                              *)
(***************************************************************************)
\* total += sp.ValueNum over the splits of one account, in int64.
RECURSIVE SumWrap(_)
SumWrap(S) ==
  IF S = {} THEN 0
  ELSE LET s == CHOOSE x \in S : TRUE
       IN  Wrap(s.value_num + SumWrap(S \ {s}))

\* The catEntry values of one account: denom is the denominator of the row
\* read last, and the query leaves the order of the rows open.
CatEntries(guid, rows, names) ==
  { [guid |-> guid, Name |-> names[guid], Total |-> SumWrap(rows),
     Denom |-> d, Count |-> Cardinality(rows)]
    : d \in {s.value_denom : s \in rows} }

\* Every choice of one catEntry per account.
RECURSIVE AllCategories(_, _, _)
AllCategories(guids, byAccount, names) ==
  IF guids = {} THEN { {} }
  ELSE LET g == CHOOSE x \in guids : TRUE
       IN  { {e} \cup rest : e \in CatEntries(g, byAccount[g], names),
                             rest \in AllCategories(guids \ {g}, byAccount, names) }

\* A sort that puts the smallest total first.
SortByTotalAsc(cats) ==
  { seq \in AllOrders(cats) : \A i \in 1..(Len(seq) - 1) : seq[i].Total <= seq[i + 1].Total }

\* The range over the map followed by sort.Slice with Total > Total: the map
\* is ranged over in any order and the sort keeps no order among equal
\* totals, so every descending arrangement is a result.
SortByTotalDesc(cats) ==
  { seq \in AllOrders(cats) : \A i \in 1..(Len(seq) - 1) : seq[i].Total >= seq[i + 1].Total }

\* grandTotal += cat.Total; grandDenom = cat.Denom
RECURSIVE GrandTotal(_)
GrandTotal(seq) ==
  IF seq = << >> THEN 0
  ELSE Wrap(GrandTotal(SubSeq(seq, 1, Len(seq) - 1)) + seq[Len(seq)].Total)

GrandDenom(seq) == IF seq = << >> THEN DefaultDenom ELSE seq[Len(seq)].Denom

CategoryLine(cat) ==
  [guid |-> cat.guid, name |-> cat.Name, total |-> cat.Total, denom |-> cat.Denom,
   amount |-> FormatDecimal(cat.Total, cat.Denom), count |-> cat.Count]

\* The outcomes of SpendingByCategory when the clock reads `now`.
SpendingByCategory(startDate, endDate, parentAccount, now) ==
  LET start == IF startDate = NoDate THEN FirstOfMonth(now) ELSE startDate
      end == IF endDate = NoDate THEN Today(now) ELSE endDate
      call == [op |-> "SpendingByCategory", startDate |-> startDate, endDate |-> endDate,
               parentAccount |-> parentAccount, now |-> now, start |-> start, end |-> end]
      parents == IF parentAccount = << >>
                   THEN { [err |-> "none", account |-> [guid |-> ""]] }
                   ELSE resolveAccount(parentAccount)
  IN  UNION {
        IF r.err # "none" THEN
          { call @@ [err |-> r.err, parentGUID |-> "", rows |-> << >>] }
        ELSE
          LET got == GetExpenseSplits(start, end, r.account.guid)
          IN  { call @@ [err |-> "none", parentGUID |-> r.account.guid,
                         found |-> seq # << >>,
                         rows |-> [k \in 1..Len(seq) |-> CategoryLine(seq[k])],
                         grandTotal |-> GrandTotal(seq), grandDenom |-> GrandDenom(seq),
                         total |-> FormatDecimal(GrandTotal(seq), GrandDenom(seq))]
                : seq \in UNION { SortByTotalDesc(cats)
                                  : cats \in AllCategories(DOMAIN got.byAccount,
                                                           got.byAccount, got.names) } }
        : r \in parents }

(***************************************************************************)
(* DB.GetMonthlyIncomeExpenses                                             *)
(***************************************************************************)
\* The splits of INCOME and EXPENSE accounts posted in the range.
MonthlySplits(startDate, endDate) ==
  {s \in splits :
     /\ HasTx(s)
     /\ HasAccount(s)
     /\ AccountOf(s).account_type \in {T_INCOME, T_EXPENSE}
     /\ DateLeq(startDate \o <<StartOfDay>>, TxOf(s).post_date)
     /\ DateLeq(TxOf(s).post_date, endDate \o <<EndOfDay>>)}

\* strftime gives NULL for a post_date that is not a date, and Scan cannot
\* store NULL in r.Month: the query fails with "scan monthly total".
NullMonth(startDate, endDate) ==
  \E s \in MonthlySplits(startDate, endDate) : ~WellFormed(TxOf(s).post_date)

\* GROUP BY month, a.account_type: one row per group with SUM(value_num) and
\* MAX(value_denom).
MonthlyGroups(startDate, endDate) ==
  LET rows == MonthlySplits(startDate, endDate)
      group(m, t) == {s \in rows : MonthOf(TxOf(s).post_date[1]) = m
                                     /\ AccountOf(s).account_type = t}
  IN  { [Month |-> k[1], AccType |-> k[2], Total |-> SumNum(group(k[1], k[2])),
         Denom |-> MaxDenom(group(k[1], k[2]))]
        : k \in { <<MonthOf(TxOf(s).post_date[1]), AccountOf(s).account_type>> : s \in rows } }

\* ORDER BY month: the rows of one month come in any order.
RECURSIVE OrderByMonth(_)
OrderByMonth(S) ==
  IF S = {} THEN { << >> }
  ELSE LET first == {r \in S : \A q \in S : r.Month <= q.Month}
       IN  UNION { { <<r>> \o rest : rest \in OrderByMonth(S \ {r}) } : r \in first }

GetMonthlyIncomeExpenses(startDate, endDate) ==
  OrderByMonth(MonthlyGroups(startDate, endDate))

(***************************************************************************)
(* Service.IncomeVsExpenses                                                *)
(***************************************************************************)
\* if months <= 0 { months = 6 }
DefaultMonths == 6

\* md = &monthData{Denom: 100}
NewMonthData == [Income |-> 0, Expenses |-> 0, Denom |-> DefaultDenom]

\* A loop that shows the income as it is stored.
RECURSIVE BucketRowsRaw(_, _, _)
BucketRowsRaw(rows, i, byMonth) ==
  IF i > Len(rows) THEN byMonth
  ELSE
    LET r == rows[i]
        md0 == IF r.Month \in DOMAIN byMonth THEN byMonth[r.Month] ELSE NewMonthData
        md1 == IF r.Denom > 0 THEN [md0 EXCEPT !.Denom = r.Denom] ELSE md0
        md2 == IF r.AccType = T_INCOME THEN [md1 EXCEPT !.Income = r.Total]
               ELSE IF r.AccType = T_EXPENSE THEN [md1 EXCEPT !.Expenses = r.Total]
               ELSE md1
    IN  BucketRowsRaw(rows, i + 1,
                      [m \in DOMAIN byMonth \cup {r.Month} |->
                         IF m = r.Month THEN md2 ELSE byMonth[m]])

\* The loop over the rows: byMonth after the rows from index i on.
RECURSIVE BucketRows(_, _, _)
BucketRows(rows, i, byMonth) ==
  IF i > Len(rows) THEN byMonth
  ELSE
    LET r == rows[i]
        md0 == IF r.Month \in DOMAIN byMonth THEN byMonth[r.Month] ELSE NewMonthData
        md1 == IF r.Denom > 0 THEN [md0 EXCEPT !.Denom = r.Denom] ELSE md0
        md2 == IF r.AccType = T_INCOME THEN [md1 EXCEPT !.Income = Wrap(-r.Total)]
               ELSE IF r.AccType = T_EXPENSE THEN [md1 EXCEPT !.Expenses = r.Total]
               ELSE md1
    IN  BucketRows(rows, i + 1,
                   [m \in DOMAIN byMonth \cup {r.Month} |->
                      IF m = r.Month THEN md2 ELSE byMonth[m]])

\* sort.Strings(monthOrder): the months in ascending order.
RECURSIVE SortMonths(_)
SortMonths(S) ==
  IF S = {} THEN << >>
  ELSE LET m == CHOOSE x \in S : \A y \in S : x <= y
       IN  <<m>> \o SortMonths(S \ {m})

MonthLine(month, md) ==
  LET net == Wrap(md.Income - md.Expenses)
  IN  [month |-> month, income |-> md.Income, expenses |-> md.Expenses, net |-> net,
       denom |-> md.Denom,
       incomeText |-> FormatDecimal(md.Income, md.Denom),
       expensesText |-> FormatDecimal(md.Expenses, md.Denom),
       netText |-> FormatDecimal(net, md.Denom)]

\* now.AddDate(0, -months+1, -now.Day()+1): the first day of the month that
\* lies months - 1 months before the current one.
WindowStart(now, months) == <<FirstDay(MonthOf(now) - months + 1)>>

\* The outcomes of IncomeVsExpenses when the clock reads `now`.
IncomeVsExpenses(months, now) ==
  LET n == IF months <= 0 THEN DefaultMonths ELSE months
      startDate == WindowStart(now, n)
      endDate == Today(now)
  IN  IF NullMonth(startDate, endDate) THEN
        { [op |-> "IncomeVsExpenses", months |-> months, now |-> now, err |-> "store",
           startDate |-> startDate, endDate |-> endDate, shown |-> n, lines |-> << >>] }
      ELSE
        { LET byMonth == BucketRows(rows, 1, << >>)
              monthOrder == SortMonths(DOMAIN byMonth)
          IN  [op |-> "IncomeVsExpenses", months |-> months, now |-> now, err |-> "none",
               startDate |-> startDate, endDate |-> endDate, shown |-> n,
               lines |-> [k \in 1..Len(monthOrder) |->
                            MonthLine(monthOrder[k], byMonth[monthOrder[k]])]]
          : rows \in GetMonthlyIncomeExpenses(startDate, endDate) }

(***************************************************************************)
(* DB.GetAllAccounts                                                       *)
(***************************************************************************)
TemplateRootName == <<"T", "e", "m", "p", "l", "a", "t", "e", " ", "R", "o", "o", "t">>

\* FROM accounts c inner join accounts p on c.parent_guid = p.guid
\* WHERE c.parent_guid IS NOT NULL AND p.name != 'Template Root'
ListedAccounts ==
  {c \in accounts :
     /\ c.parent_guid # NULL
     /\ \E p \in accounts : p.guid = c.parent_guid /\ p.name # TemplateRootName}

\* The scanned Account values: FullName is not a column of the query and
\* keeps the zero value of its type.
ScanAccount(c) ==
  [GUID |-> c.guid, Name |-> c.name, AccountType |-> c.account_type,
   ParentGUID |-> c.parent_guid, FullName |-> << >>]

GetAllAccounts ==
  { [k \in 1..Len(seq) |-> ScanAccount(seq[k])] : seq \in OrderByName(ListedAccounts) }

(***************************************************************************)
(* Service.ListAccounts                                                    *)
(***************************************************************************)
\* The fields of Account the unfinished selector `acc.` of the output line
\* can name.
AccountFields == {"GUID", "Name", "AccountType", "ParentGUID", "FullName"}

\* "%s\t%s%i\n" with acc.FullName, acc.AccountType and the third operand,
\* kept as the name of the field it reads.
AccountLine(acc, field) ==
  [path |-> acc.FullName, type |-> acc.AccountType, extra |-> field, guid |-> acc.GUID]

\* The outcomes of ListAccounts(accountType): the loop writes a line for
\* every account of the query and does not read accountType.
ListAccounts(accountType) ==
  { [op |-> "ListAccounts", accountType |-> accountType, err |-> "none",
     lines |-> [k \in 1..Len(accs) |-> AccountLine(accs[k], field)],
     none |-> (Len(accs) = 0)]
    : accs \in GetAllAccounts, field \in AccountFields }

(***************************************************************************)
(* The ledgers of the specification SpecReport: the chart of the test      *)
(* fixture with a category below a category and a template account, and    *)
(* payments and salaries spread over the months.                           *)
(***************************************************************************)
N_Income == <<"I", "n", "c", "o", "m", "e">>
N_Salary == <<"S", "a", "l", "a", "r", "y">>
N_Organic == <<"O", "r", "g", "a", "n", "i", "c">>
N_Rent == <<"R", "e", "n", "t">>

ReportAccounts ==
  { RootAccount,
    Account("troot", TemplateRootName, T_ROOT, NULL),
    Account("tmpl", N_Rent, T_EXPENSE, "troot"),
    Account("assets", N_Assets, T_ASSET, "root"),
    Account("expenses", N_Expenses, T_EXPENSE, "root"),
    Account("income", N_Income, T_INCOME, "root"),
    Account("checking", N_Checking, T_BANK, "assets"),
    Account("groceries", N_Groceries, T_EXPENSE, "expenses"),
    Account("restaurant", N_Restaurant, T_EXPENSE, "expenses"),
    Account("organic", N_Organic, T_EXPENSE, "groceries"),
    Account("salary", N_Salary, T_INCOME, "income") }

\* A transaction of amount v from Checking to the account, or, for a
\* negative v, from the account to Checking.
Payment(tx, account, v) ==
  { SplitRow(tx \o "a", tx, "checking", << >>, -v),
    SplitRow(tx \o "b", tx, account, << >>, v) }

Posted(tx, day, time) == [guid |-> tx, post_date |-> <<day, time>>, description |-> D_Pay]

InitReportLedger ==
  /\ accounts = ReportAccounts
  /\ \E v1 \in {200, 250}, d1 \in ReportDays, d2, di \in {1, FirstDay(MaxMonth)} :
        /\ transactions = { Posted("e1", d1, StartOfDay), Posted("e2", d2, EndOfDay),
                            Posted("e3", 1, StartOfDay),
                            Posted("e4", DaysPerMonth, EndOfDay),
                            Posted("i1", di, StartOfDay), Posted("i2", 1, EndOfDay) }
        /\ splits = Payment("e1", "groceries", v1) \cup Payment("e2", "restaurant", 250)
                      \cup Payment("e3", "organic", 250) \cup Payment("e4", "groceries", 50)
                      \cup Payment("i1", "salary", -3000) \cup Payment("i2", "salary", -1000)

InitReport ==
  /\ InitReportLedger
  /\ cur = NoCall
  /\ prev = NoCall

\* The bounds of a range: none, the first or the last day of the first
\* month, the first or the last day of the last month.
StartArgs == {NoDate, <<1>>, <<FirstDay(MaxMonth)>>}
EndArgs == {NoDate, <<DaysPerMonth>>, <<MaxMonth * DaysPerMonth>>}
ParentArgs ==
  { << >>, <<"e", "x", "p", "e", "n", "s", "e", "s">>,
    <<"G", "R", "O", "C", "E", "R", "I", "E", "S">>, <<"c", "h", "e", "c", "k">>,
    <<"e">>, <<"z", "z">> }
MonthArgs == 0..MaxMonth
\* The readings of the clock: the last day of the first month and the day
\* before the last day of the ledger.
NowArgs == {DaysPerMonth, MaxMonth * DaysPerMonth - 1}
TypeArgs == { << >>, T_EXPENSE, T_BANK, T_ROOT }

\* One request, or the same spending request a second time at the same
\* reading of the clock.
SpendingByCategoryStep ==
  /\ \E startDate \in StartArgs, endDate \in EndArgs,
        parentAccount \in ParentArgs, now \in NowArgs :
       /\ \/ Idle
          \/ /\ cur.op = "SpendingByCategory"
             /\ prev = NoCall
             /\ cur.startDate = startDate
             /\ cur.endDate = endDate
             /\ cur.parentAccount = parentAccount
             /\ cur.now = now
       /\ \E r \in SpendingByCategory(startDate, endDate, parentAccount, now) : cur' = r
  /\ prev' = cur
  /\ UNCHANGED <<accounts, transactions, splits>>

IncomeVsExpensesStep ==
  /\ Idle
  /\ \E months \in MonthArgs, now \in NowArgs :
       \E r \in IncomeVsExpenses(months, now) : cur' = r
  /\ UNCHANGED <<accounts, transactions, splits, prev>>

ListAccountsStep ==
  /\ Idle
  /\ \E accountType \in TypeArgs :
       \E r \in ListAccounts(accountType) : cur' = r
  /\ UNCHANGED <<accounts, transactions, splits, prev>>

NextReport ==
  \/ SpendingByCategoryStep
  \/ IncomeVsExpensesStep
  \/ ListAccountsStep

SpecReport == InitReport /\ [][NextReport]_vars

(***************************************************************************)
(* Properties of the spending report.                                      *)
(***************************************************************************)
Spent == cur.op = "SpendingByCategory" /\ cur.err = "none"

\* C11: in a spending report, the monetary total of every category row is
\* greater than or equal to that of the row after it.
C11_DescendingTotals ==
  Spent =>
    \A k \in 1..(Len(cur.rows) - 1) :
       cur.rows[k].total * cur.rows[k + 1].denom >= cur.rows[k + 1].total * cur.rows[k].denom

\* A report of three categories of which the first has a larger total than
\* the last.
C11_Witness ==
  /\ Spent
  /\ Len(cur.rows) >= 3
  /\ cur.rows[1].total > cur.rows[Len(cur.rows)].total

\* The splits of the account posted on the days from start to end.
PostedInRange(guid, start, end) ==
  {s \in splits : s.account_guid = guid /\ DayInRange(TxOf(s), start, end)}

RECURSIVE SumTotals(_)
SumTotals(rows) ==
  IF rows = << >> THEN 0 ELSE Head(rows).total + SumTotals(Tail(rows))

\* C12: in a spending report the grand total is exactly the sum of the
\* category totals shown above it, on the same scale, and every category
\* total is the sum of the values of that account's splits posted in the
\* range; the amounts are shown in the two-decimal rendering.
C12_TotalsAddUp ==
  (Spent /\ cur.found) =>
    /\ cur.grandTotal = SumTotals(cur.rows)
    /\ \A k \in 1..Len(cur.rows) :
          /\ cur.rows[k].denom = cur.grandDenom
          /\ cur.rows[k].total = SumNum(PostedInRange(cur.rows[k].guid, cur.start, cur.end))
          /\ cur.rows[k].amount = ReferenceRendering(cur.rows[k].total, cur.rows[k].denom)
    /\ cur.total = ReferenceRendering(SumTotals(cur.rows), cur.grandDenom)

\* A report of two or more categories, one of them summing two splits,
\* for a range that leaves out a split of an expense account.
C12_Witness ==
  /\ Spent
  /\ Len(cur.rows) >= 2
  /\ \E k \in 1..Len(cur.rows) : cur.rows[k].count = 2
  /\ \E s \in splits : /\ AccountOf(s).account_type = T_EXPENSE
                       /\ ~DayInRange(TxOf(s), cur.start, cur.end)

\* C13: two spending requests with the same arguments, at the same reading
\* of the clock and on the same ledger, give the same report, the order of
\* the categories of equal total included.
C13_SameReportTwice ==
  (/\ Spent
   /\ prev.op = "SpendingByCategory"
   /\ prev.err = "none"
   /\ prev.startDate = cur.startDate
   /\ prev.endDate = cur.endDate
   /\ prev.parentAccount = cur.parentAccount
   /\ prev.now = cur.now)
    => cur.rows = prev.rows

\* The expense accounts that have a split posted in the range.
ExpenseAccountsInRange(start, end) ==
  {a \in accounts : a.account_type = T_EXPENSE /\ PostedInRange(a.guid, start, end) # {}}

RowGuids == {cur.rows[k].guid : k \in 1..Len(cur.rows)}

\* C14: with a parent filter the report holds exactly the expense accounts
\* with splits in the range whose immediate parent is the resolved account;
\* with no filter, every expense account with splits in the range; a parent
\* name that does not resolve fails the request with the resolver's error.
C14_ParentFilter ==
  cur.op = "SpendingByCategory" =>
    IF cur.parentAccount = << >> THEN
      /\ cur.err = "none"
      /\ RowGuids = {a.guid : a \in ExpenseAccountsInRange(cur.start, cur.end)}
    ELSE
      \E r \in resolveAccount(cur.parentAccount) :
         /\ cur.err = r.err
         /\ r.err # "none" => cur.rows = << >>
         /\ r.err = "none" =>
              RowGuids = {a.guid : a \in {b \in ExpenseAccountsInRange(cur.start, cur.end) :
                                            b.parent_guid = r.account.guid}}

\* A filter that keeps an account and leaves out both its parent's sibling
\* and an account two levels below the parent.
C14_Witness ==
  /\ Spent
  /\ cur.parentAccount # << >>
  /\ cur.rows # << >>
  /\ \E a \in ExpenseAccountsInRange(cur.start, cur.end) :
        /\ a.guid \notin RowGuids
        /\ a.parent_guid # NULL
        /\ ParentOf(a).parent_guid = cur.parentGUID

(***************************************************************************)
(* Properties of the monthly comparison.                                   *)
(***************************************************************************)
\* The splits of the accounts of one type posted in month m, on the days of
\* the window from start to end.
MonthSplits(type, m, start, end) ==
  {s \in splits :
     /\ AccountOf(s).account_type = type
     /\ MonthOf(TxOf(s).post_date[1]) = m
     /\ DayInRange(TxOf(s), start, end)}

\* C15: for every month of the comparison, Income is the negation of the
\* stored sum of the month's income splits, Expenses the stored sum of the
\* month's expense splits, Net is Income minus Expenses; the months come in
\* ascending order and are exactly the months for which the window holds an
\* income or expense split.
C15_MonthlyNet ==
  cur.op = "IncomeVsExpenses" =>
    /\ cur.err = "none"
    /\ \A k \in 1..Len(cur.lines) :
          LET l == cur.lines[k]
          IN  /\ l.income = -SumNum(MonthSplits(T_INCOME, l.month, cur.startDate, cur.endDate))
              /\ l.expenses = SumNum(MonthSplits(T_EXPENSE, l.month, cur.startDate, cur.endDate))
              /\ l.net = l.income - l.expenses
              /\ l.incomeText = ReferenceRendering(l.income, l.denom)
              /\ l.expensesText = ReferenceRendering(l.expenses, l.denom)
              /\ l.netText = ReferenceRendering(l.net, l.denom)
    /\ \A k \in 1..(Len(cur.lines) - 1) : cur.lines[k].month < cur.lines[k + 1].month
    /\ {cur.lines[k].month : k \in 1..Len(cur.lines)}
         = {MonthOf(TxOf(s).post_date[1]) :
              s \in {x \in splits : /\ AccountOf(x).account_type \in {T_INCOME, T_EXPENSE}
                                    /\ DayInRange(TxOf(x), cur.startDate, cur.endDate)}}

\* A comparison of two months, one with income and expenses and one with
\* expenses only, that leaves out splits posted outside the window.
C15_Witness ==
  /\ cur.op = "IncomeVsExpenses"
  /\ Len(cur.lines) >= 2
  /\ \E k \in 1..Len(cur.lines) : cur.lines[k].income > 0 /\ cur.lines[k].expenses > 0
  /\ \E k \in 1..Len(cur.lines) : cur.lines[k].income = 0 /\ cur.lines[k].net < 0
  /\ \E s \in splits : /\ AccountOf(s).account_type = T_EXPENSE
                       /\ ~DayInRange(TxOf(s), cur.startDate, cur.endDate)

(***************************************************************************)
(* Properties of the account list.                                         *)
(***************************************************************************)
\* C16: with a non-empty type filter the list holds only accounts whose type
\* is the filter; with an empty filter it holds every account of the query.
C16_TypeFilter ==
  cur.op = "ListAccounts" =>
    /\ cur.accountType # << >> =>
         \A k \in 1..Len(cur.lines) : cur.lines[k].type = cur.accountType
    /\ cur.accountType = << >> =>
         {cur.lines[k].guid : k \in 1..Len(cur.lines)} = {a.guid : a \in ListedAccounts}

\* C17: every line of the list shows the full path of its account: the names
\* from the top-level ancestor down to the account joined by colons, the
\* root left out.
C17_FullPaths ==
  cur.op = "ListAccounts" =>
    \A k \in 1..Len(cur.lines) :
       \E a \in accounts :
          /\ a.guid = cur.lines[k].guid
          /\ a.parent_guid # NULL
          /\ cur.lines[k].path = FullPath(a)

(***************************************************************************)
(* The specification SpecRun: a request runs query by query.  Each query   *)
(* of a request either succeeds, and the code goes on to its next query or *)
(* to its return, or fails, at QueryContext or while its rows are scanned. *)
(* A new request starts when the one before has returned.  cur is the      *)
(* request: its arguments, the queries issued so far (log), the locals     *)
(* that live across queries (st) and, once returned, the error and the     *)
(* report; prev is the operation and the error of the request before.      *)
(* The steps of a request are functions of the request r and of the store, *)
(* as the methods of Service and DB are of their arguments and of d.db.    *)
(***************************************************************************)
NoReport == [op |-> "none"]
NoState == [none |-> TRUE]

\* A store opened for writing on which a request deletes the splits.
ReadWrite == UNCHANGED <<accounts, transactions>> /\ splits' = {}

\* The store is opened with mode=ro and the operations issue SELECTs only.
ReadOnly == UNCHANGED <<accounts, transactions, splits>>

Running(r) == r # NoCall /\ r.status = "running"
Returned(r) == r # NoCall /\ r.status = "returned"

\* The number of queries the request has issued.
Pc(r) == Len(r.log)

RunLedger ==
  /\ accounts = ReportAccounts
  /\ \E d \in 1..MaxDay, t \in {StartOfDay, BadSecond} :
        /\ transactions = { [guid |-> "r1", post_date |-> <<1, StartOfDay>>,
                             description |-> D_Market],
                            [guid |-> "r2", post_date |-> <<d, EndOfDay>>,
                             description |-> D_Mart],
                            [guid |-> "r3", post_date |-> <<1, t>>, description |-> D_Pay] }
        /\ splits = Payment("r1", "groceries", 8550) \cup Payment("r2", "restaurant", 2500)
                      \cup Payment("r3", "salary", -3000)

InitRun ==
  /\ RunLedger
  /\ cur = NoCall
  /\ prev = NoCall

\* The request at the entry of its operation: ctx is live (cancelled says
\* that ctx.Done() is closed, cancelledAt how many queries the request had
\* issued when it was closed); overlapped records that a query of another
\* request completed between two queries of this one.
Start(call) ==
  call @@ [status |-> "running", log |-> << >>, st |-> NoState,
           err |-> "none", report |-> NoReport,
           cancelled |-> FALSE, cancelledAt |-> 0, overlapped |-> FALSE]

RunNames == { <<"c", "h", "e", "c", "k", "i", "n", "g">>, <<"e">>, <<"z", "z">> }
RunQueries == { <<"m", "a", "r">>, <<"p", "a", "y">>, <<"z", "z">> }

\* A request arrives: one of the six operations with its arguments.
CallStep ==
  /\ cur = NoCall \/ Returned(cur)
  /\ \/ \E accountType \in {<< >>, T_EXPENSE} :
          cur' = Start([op |-> "ListAccounts", accountType |-> accountType])
     \/ \E accountName \in RunNames, date \in {NoDate, <<1>>} :
          cur' = Start([op |-> "GetBalance", accountName |-> accountName, date |-> date])
     \/ \E accountName \in RunNames, endDate \in {NoDate, <<1>>}, limit \in {0, 1} :
          cur' = Start([op |-> "GetTransactions", accountName |-> accountName,
                        startDate |-> NoDate, endDate |-> endDate, limit |-> limit])
     \/ \E endDate \in {NoDate, <<1>>}, parentAccount \in {<< >>} \cup RunNames :
          cur' = Start([op |-> "SpendingByCategory", startDate |-> <<1>>,
                        endDate |-> endDate, parentAccount |-> parentAccount,
                        now |-> MaxDay])
     \/ \E months \in {0, 1}, now \in 1..MaxDay :
          cur' = Start([op |-> "IncomeVsExpenses", months |-> months, now |-> now])
     \/ \E query \in RunQueries, limit \in {0, 1} :
          cur' = Start([op |-> "SearchTransactions", query |-> query, limit |-> limit])
  /\ prev' = IF cur = NoCall THEN NoCall ELSE [op |-> cur.op, err |-> cur.err]
  /\ ReadOnly

\* The request starts with the resolver's lookup.
Resolves(r) ==
  \/ r.op \in {"GetBalance", "GetTransactions"}
  \/ r.op = "SpendingByCategory" /\ r.parentAccount # << >>

ResolvedName(r) == IF r.op = "SpendingByCategory" THEN r.parentAccount ELSE r.accountName

\* The query the request issues next and the argument that tells it from
\* the other queries of the request.
NextQuery(r) ==
  IF r.op = "ListAccounts" THEN [q |-> "GetAllAccounts", key |-> ""]
  ELSE IF Resolves(r) /\ Pc(r) = 0 THEN [q |-> "FindAccountsByName", key |-> ""]
  ELSE IF r.op = "GetBalance" THEN [q |-> "GetBalanceForAccount", key |-> ""]
  ELSE IF r.op = "GetTransactions" THEN [q |-> "GetSplitsForAccount", key |-> ""]
  ELSE IF r.op = "SpendingByCategory" THEN [q |-> "GetExpenseSplits", key |-> ""]
  ELSE IF r.op = "IncomeVsExpenses" THEN [q |-> "GetMonthlyIncomeExpenses", key |-> ""]
  ELSE IF Pc(r) = 0 THEN [q |-> "SearchTransactions", key |-> ""]
  ELSE [q |-> "getSplitsForTransaction", key |-> r.st.rows[Pc(r)].guid]

Issued(r, ok) == Append(r.log, NextQuery(r) @@ [ok |-> ok])

\* return "", err
ReturnError(r, err, ok) ==
  [r EXCEPT !.status = "returned", !.err = err, !.report = NoReport,
            !.st = NoState, !.log = Issued(r, ok)]

\* return sb.String(), nil
ReturnReport(r, report) ==
  [r EXCEPT !.status = "returned", !.err = "none", !.report = report,
            !.st = NoState, !.log = Issued(r, TRUE)]

\* The code goes on to the next query with the locals st.
GoOn(r, st) == [r EXCEPT !.st = st, !.log = Issued(r, TRUE)]

\* A search that, when the split query of a transaction fails, reports the
\* transactions loaded so far.
QueryFailPartial(r) ==
  IF r.op = "SearchTransactions" /\ Pc(r) > 0
    THEN { [r EXCEPT !.status = "returned", !.err = "none",
                     !.report = SearchReport(r.query, r.limit, r.st.loaded),
                     !.st = NoState, !.log = Issued(r, FALSE)] }
    ELSE { ReturnError(r, "store", FALSE) }

\* The next query fails (QueryContext, rows.Scan or rows.Err returns an
\* error): every caller up to the operation returns the error.
QueryFail(r) == { ReturnError(r, "store", FALSE) }

\* The next query succeeds and the code runs up to its next query or to its
\* return: the requests r can be afterwards.
QueryOk(r) ==
  IF r.op = "ListAccounts" THEN
    { ReturnReport(r, x) : x \in ListAccounts(r.accountType) }
  ELSE IF Resolves(r) /\ Pc(r) = 0 THEN
    { LET m == resolveMatch(found, ResolvedName(r))
      IN  IF m.err # "none" THEN ReturnError(r, m.err, TRUE)
          ELSE GoOn(r, [account |-> m.account])
      : found \in FindAccountsByName(ResolvedName(r)) }
  ELSE IF r.op = "GetBalance" THEN
    { ReturnReport(r, x) :
        x \in {y \in GetBalance(r.accountName, r.date) :
                 y.err = "none" /\ y.account = r.st.account} }
  ELSE IF r.op = "GetTransactions" THEN
    { ReturnReport(r, x) :
        x \in {y \in GetTransactions(r.accountName, r.startDate, r.endDate, r.limit) :
                 y.err = "none" /\ y.account = r.st.account} }
  ELSE IF r.op = "SpendingByCategory" THEN
    { ReturnReport(r, x) :
        x \in {y \in SpendingByCategory(r.startDate, r.endDate, r.parentAccount, r.now) :
                 /\ y.err = "none"
                 /\ Resolves(r) => y.parentGUID = r.st.account.guid} }
  ELSE IF r.op = "IncomeVsExpenses" THEN
    { IF x.err # "none" THEN ReturnError(r, x.err, FALSE) ELSE ReturnReport(r, x)
      : x \in IncomeVsExpenses(r.months, r.now) }
  ELSE IF Pc(r) = 0 THEN
    { IF rows = << >> THEN ReturnReport(r, SearchReport(r.query, r.limit, << >>))
      ELSE GoOn(r, [rows |-> rows, loaded |-> << >>])
      : rows \in SearchRows(r.query,
                            IF r.limit <= 0 THEN DefaultSearchLimit ELSE r.limit) }
  ELSE
    { LET row == r.st.rows[Pc(r)]
          loaded == Append(r.st.loaded,
                           [guid |-> row.guid,
                            post_date |-> parseDate(row.post_date).time,
                            description |-> row.description, splits |-> sp])
      IN  IF Pc(r) = Len(r.st.rows)
            THEN ReturnReport(r, SearchReport(r.query, r.limit, loaded))
            ELSE GoOn(r, [rows |-> r.st.rows, loaded |-> loaded])
      : sp \in getSplitsForTransaction(r.st.rows[Pc(r)].guid) }

QueryFailStep ==
  /\ Running(cur)
  /\ cur' \in QueryFail(cur)
  /\ UNCHANGED prev
  /\ ReadOnly

QueryOkStep ==
  /\ Running(cur)
  /\ cur' \in QueryOk(cur)
  /\ UNCHANGED prev
  /\ ReadOnly

NextRun ==
  \/ CallStep
  \/ QueryOkStep
  \/ QueryFailStep

SpecRun == InitRun /\ [][NextRun]_vars

(***************************************************************************)
(* Properties of the requests run query by query.                          *)
(***************************************************************************)
Failed == {k \in 1..Len(cur.log) : ~cur.log[k].ok}

QueryNames(log) == [k \in 1..Len(log) |-> log[k].q]

\* The queries a request issues when none fails, given the report it made.
QueriesOf(call) ==
  IF call.op = "ListAccounts" THEN <<"GetAllAccounts">>
  ELSE IF call.op = "GetBalance" THEN <<"FindAccountsByName", "GetBalanceForAccount">>
  ELSE IF call.op = "GetTransactions" THEN <<"FindAccountsByName", "GetSplitsForAccount">>
  ELSE IF call.op = "SpendingByCategory" THEN
         IF call.parentAccount = << >> THEN <<"GetExpenseSplits">>
         ELSE <<"FindAccountsByName", "GetExpenseSplits">>
  ELSE IF call.op = "IncomeVsExpenses" THEN <<"GetMonthlyIncomeExpenses">>
  ELSE <<"SearchTransactions">>
         \o [k \in 1..Len(call.report.txs) |-> "getSplitsForTransaction"]

\* C18: a request of which a query or a row scan failed returns an error and
\* no report, and issues no query after the failed one; a request that
\* returns a report has issued all its queries, none failed, the split query
\* of every transaction of a search included; no query is issued twice.
C18_NoPartialResults ==
  /\ Running(cur) => Failed = {}
  /\ Returned(cur) =>
       /\ Failed # {} =>
            /\ cur.err # "none"
            /\ cur.report = NoReport
            /\ Failed = {Len(cur.log)}
       /\ cur.err # "none" => cur.report = NoReport
       /\ cur.err = "none" =>
            /\ Failed = {}
            /\ cur.report # NoReport
            /\ QueryNames(cur.log) = QueriesOf(cur)
            /\ cur.op = "SearchTransactions" =>
                 \A k \in 1..Len(cur.report.txs) :
                    /\ cur.log[k + 1].key = cur.report.txs[k].guid
                    /\ {sp.guid : sp \in {cur.report.txs[k].splits[j]
                                            : j \in 1..Len(cur.report.txs[k].splits)}}
                         = {x.guid : x \in {y \in splits :
                                              y.tx_guid = cur.report.txs[k].guid}}
       /\ \A j, k \in 1..Len(cur.log) :
             (j # k /\ cur.log[j].q = cur.log[k].q) => cur.log[j].key # cur.log[k].key

\* A search that failed at the split query of its second transaction.
C18_Witness ==
  /\ Returned(cur)
  /\ cur.op = "SearchTransactions"
  /\ Len(cur.log) = 3
  /\ ~cur.log[3].ok
  /\ cur.err = "store"
  /\ cur.report = NoReport

StoredDate(guid) == (CHOOSE t \in transactions : t.guid = guid).post_date

\* C19: when the stored post_date of a transaction of the result parses in
\* neither layout, GetTransactions and SearchTransactions return an error
\* and no report showing another date for it.
C19_DecodeFailureReturned ==
  (Returned(cur) /\ cur.op \in {"GetTransactions", "SearchTransactions"}
     /\ cur.err = "none") =>
    \A k \in 1..Len(cur.report.txs) : WellFormed(StoredDate(cur.report.txs[k].guid))

\* C20: no step of any of the six operations, successful or failed, changes
\* the accounts, the transactions or the splits of the store.
C20_StoreUnchanged ==
  [][accounts' = accounts /\ transactions' = transactions /\ splits' = splits]_vars

\* A failed request after a successful request of another operation, the
\* ledger still holding its postings.
C20_Witness ==
  /\ Returned(cur)
  /\ cur.err # "none"
  /\ prev # NoCall
  /\ prev.err = "none"
  /\ prev.op # cur.op
  /\ Cardinality(transactions) = 3
  /\ Cardinality(splits) = 6

(***************************************************************************)
(* The specification SpecConc: several requests in flight on one Service.  *)
(* Each caller runs its handler on its own goroutine; the queries of the   *)
(* requests interleave in any order.  cur[c] is the request of caller c.   *)
(* The Service holds the DB, the DB holds the *sql.DB, and the requests    *)
(* share nothing else.                                                     *)
(***************************************************************************)
MaxCallers == 2

Callers == 1..MaxCallers

\* The ledgers of the requests in flight: the postings of RunLedger on one
\* day.
ConcLedger ==
  /\ RunLedger
  /\ \A t \in transactions : t.post_date[1] = 1

InitConc ==
  /\ ConcLedger
  /\ \A t \in transactions : WellFormed(t.post_date)
  /\ cur = [c \in Callers |-> NoCall]
  /\ prev = NoCall

ConcNames == { N_Checking, <<"e">> }
ConcQueries == { <<"m", "a", "r">>, <<"p", "a", "y">> }

\* The requests a caller makes: each of the six operations.
Requests ==
  { [op |-> "ListAccounts", accountType |-> << >>],
    [op |-> "GetTransactions", accountName |-> N_Groceries, startDate |-> NoDate,
     endDate |-> NoDate, limit |-> 0],
    [op |-> "SpendingByCategory", startDate |-> <<1>>, endDate |-> NoDate,
     parentAccount |-> << >>, now |-> MaxDay],
    [op |-> "IncomeVsExpenses", months |-> 0, now |-> MaxDay] }
    \cup { [op |-> "GetBalance", accountName |-> accountName, date |-> NoDate]
            : accountName \in ConcNames }
    \cup { [op |-> "SearchTransactions", query |-> query, limit |-> 0]
            : query \in ConcQueries }

\* Caller c enters its operation.
CallConc(c) ==
  /\ cur[c] = NoCall
  /\ \E call \in Requests : cur' = [cur EXCEPT ![c] = Start(call)]
  /\ UNCHANGED prev
  /\ ReadOnly

\* A query of another request completed while r was between two queries.
Overlap(r) == IF Running(r) /\ Pc(r) > 0 THEN [r EXCEPT !.overlapped = TRUE] ELSE r

\* A DB that keeps the transactions a search has loaded in a field of its
\* own, which the searches in flight share.
QueryStepShared(c) ==
  /\ Running(cur[c])
  /\ \E r \in QueryOk(cur[c]) :
       cur' = [d \in Callers |->
                 IF d = c THEN r
                 ELSE IF /\ Running(r) /\ Running(cur[d]) /\ Pc(cur[d]) > 0
                         /\ r.op = "SearchTransactions" /\ cur[d].op = r.op
                   THEN [Overlap(cur[d]) EXCEPT !.st.loaded = r.st.loaded]
                   ELSE Overlap(cur[d])]
  /\ UNCHANGED prev
  /\ ReadOnly

\* The next query of caller c's request completes and its handler runs up to
\* the next query or to its return; the locals of the other requests stay
\* as they are.
QueryStep(c) ==
  /\ Running(cur[c])
  /\ \E r \in QueryOk(cur[c]) :
       cur' = [d \in Callers |-> IF d = c THEN r ELSE Overlap(cur[d])]
  /\ UNCHANGED prev
  /\ ReadOnly

NextConc ==
  \E c \in Callers :
     \/ CallConc(c)
     \/ QueryStep(c)

SpecConc == InitConc /\ [][NextConc]_vars

(***************************************************************************)
(* Properties of the requests in flight together.                          *)
(***************************************************************************)
\* The outcomes of the operation of request r run in one piece on the store.
Alone(r) ==
  IF r.op = "ListAccounts" THEN ListAccounts(r.accountType)
  ELSE IF r.op = "GetBalance" THEN GetBalance(r.accountName, r.date)
  ELSE IF r.op = "GetTransactions" THEN
         GetTransactions(r.accountName, r.startDate, r.endDate, r.limit)
  ELSE IF r.op = "SpendingByCategory" THEN
         SpendingByCategory(r.startDate, r.endDate, r.parentAccount, r.now)
  ELSE IF r.op = "IncomeVsExpenses" THEN IncomeVsExpenses(r.months, r.now)
  ELSE SearchTransactions(r.query, r.limit)

AllOk(log) == \A k \in 1..Len(log) : log[k].ok

\* C21: whatever the other callers do meanwhile, a request whose queries all
\* succeeded returns a report, or a resolver error, that the operation run
\* alone on the same store returns; a request of which a query failed
\* returns that error and no report.
C21_SameResultAsAlone ==
  \A c \in Callers :
     Returned(cur[c]) =>
       IF AllOk(cur[c].log)
         THEN IF cur[c].err = "none" THEN cur[c].report \in Alone(cur[c])
              ELSE /\ cur[c].report = NoReport
                   /\ \E y \in Alone(cur[c]) : y.err = cur[c].err
         ELSE /\ cur[c].err = "store"
              /\ cur[c].report = NoReport

\* Two searches whose queries interleaved have both returned their reports.
C21_Witness ==
  \E c, d \in Callers :
     /\ c # d
     /\ Returned(cur[c]) /\ Returned(cur[d])
     /\ cur[c].overlapped /\ cur[d].overlapped
     /\ cur[c].op = "SearchTransactions" /\ cur[d].op = "SearchTransactions"
     /\ cur[c].err = "none" /\ cur[d].err = "none"
     /\ Len(cur[c].report.txs) = 2
     /\ Len(cur[d].report.txs) = 1

(***************************************************************************)
(* The specification SpecCancel: requests in sequence with a caller that   *)
(* may cancel the ctx of the running request, before its first query or    *)
(* between or during its later ones.  A query is one step: it observes a   *)
(* cancellation that comes before its rows are exhausted.  The handler     *)
(* runs on its goroutine until it returns, so a running request gets to    *)
(* the end of its next query.                                              *)
(***************************************************************************)
InitCancel ==
  /\ ConcLedger
  /\ cur = NoCall
  /\ prev = NoCall

CallCancel ==
  /\ cur = NoCall \/ Returned(cur)
  /\ \E call \in Requests : cur' = Start(call)
  /\ UNCHANGED prev
  /\ ReadOnly

\* cancel() of the ctx handed to the operation.
CancelStep ==
  /\ Running(cur)
  /\ ~cur.cancelled
  /\ cur' = [cur EXCEPT !.cancelled = TRUE, !.cancelledAt = Pc(cur)]
  /\ UNCHANGED prev
  /\ ReadOnly

\* A store layer that passes context.Background() to the split query of a
\* transaction.
ObservesButSplitQuery(r) ==
  r.cancelled /\ NextQuery(r).q # "getSplitsForTransaction"

\* Every query is issued with QueryContext(ctx, ...) or QueryRowContext(ctx,
\* ...): once ctx is cancelled the query returns ctx.Err().
Observes(r) ==
  r.cancelled

\* The requests r can be after its next query.
Query(r) ==
  IF Observes(r) THEN { ReturnError(r, "canceled", FALSE) }
  ELSE QueryOk(r) \cup QueryFail(r)

QueryStepCtx ==
  /\ Running(cur)
  /\ cur' \in Query(cur)
  /\ UNCHANGED prev
  /\ ReadOnly

NextCancel ==
  \/ CallCancel
  \/ CancelStep
  \/ QueryStepCtx

SpecCancel == InitCancel /\ [][NextCancel]_vars /\ WF_vars(QueryStepCtx)

(***************************************************************************)
(* Properties of cancelled requests.                                       *)
(***************************************************************************)
\* The request has issued no query since its ctx was cancelled but the one
\* that observed the cancellation, and it returned the ctx error, no report.
StoppedAtCancel(r) ==
  /\ Running(r) => Len(r.log) = r.cancelledAt
  /\ Returned(r) =>
       /\ r.err = "canceled"
       /\ r.report = NoReport
       /\ Len(r.log) = r.cancelledAt + 1
       /\ \A k \in 1..Len(r.log) : r.log[k].ok <=> k <= r.cancelledAt

\* C22: a request whose ctx is cancelled while it runs, before its first
\* query, between two queries or between the split queries of a search,
\* returns a cancellation error and no report, has issued no query after the
\* one that observed the cancellation, and does return.
C22_HonoursCancellation ==
  /\ []((cur # NoCall /\ cur.cancelled) => StoppedAtCancel(cur))
  /\ (Running(cur) /\ cur.cancelled) ~> (Returned(cur) /\ cur.err = "canceled")

\* A search cancelled between the split queries of its two transactions.
C22_Witness ==
  /\ Returned(cur)
  /\ cur.op = "SearchTransactions"
  /\ cur.cancelled
  /\ cur.cancelledAt = 2
  /\ Len(cur.log) = 3
  /\ cur.err = "canceled"

====
